---- MODULE Spec2Model ----
(***************************************************************************)
(* Verification model of the table-tennis ball tracker                     *)
(* (src/main.py, class TableTennisBallTracker) driven by the per-frame     *)
(* loop of main().                                                         *)
(*                                                                         *)
(* Units.  Positions are whole pixels, velocities whole pixels per second, *)
(* accelerations whole pixels per second squared; dt = 1 / Fps.            *)
(*                                                                         *)
(* Estimator.  self.kf is a filterpy KalmanFilter, a library that is not   *)
(* part of the repository.  KfPredict applies the transition matrix F that *)
(* __init__ installs.  KfUpdate applies the correction x + K (z - H x)     *)
(* with the measurement matrix H of __init__ and a fixed gain K (position  *)
(* 1, velocity 1/dt, acceleration 0) in place of the covariance recursion  *)
(* that filterpy runs on P, Q and R; every decision of update() reads the  *)
(* estimator only through its position and velocity.                       *)
(*                                                                         *)
(* self.history (a deque that update() appends to and nothing reads) is    *)
(* not part of the state.                                                  *)
(***************************************************************************)
EXTENDS Integers, Sequences, FiniteSets, TLC

VARIABLES
    cfg,               \* the session: tracker arguments, input alphabet, video length
    frame_count,       \* main(): frame_count, passed to update() as frame_num
    kf,                \* self.kf.x as [x, y, vx, vy, ax, ay]
    initialized,       \* self.initialized
    missing_frames,    \* self.missing_frames
    mode,              \* self.mode
    bounces,           \* self.bounces
    prev_vy,           \* self.prev_vy
    last_bounce_frame, \* self.last_bounce_frame
    confirm_window,    \* self.confirm_window (deque, maxlen 5)
    confirmed,         \* self.confirmed
    result,            \* the dict returned by the last update() call
    det,               \* the detection_center argument of the last update() call
    branch,            \* the return path the last update() call took
    predicts,          \* the self.kf.predict() calls the last update() made
    vt_args,           \* _valid_table: the arguments of the call
    vt_done,           \* _valid_table: the call has returned
    vt_ret,            \* _valid_table: the value returned
    frame,             \* detect_table_corners: the frame it is called on
    ran,               \* the strategies the call under way has run, with
                       \* what each returned
    returned,          \* detect_table_corners has returned
    ret,               \* the (corners, net_y) it returned
    calls,             \* the values returned by the calls made on the frame
    bd_args,           \* TableTennisBallDetector.detect: the candidates found
                       \* in the frame, prev_center and search_radius
    bd_done,           \* detect has returned
    bd_ret,            \* the candidate it returned, or None
    env,               \* main(): its arguments, the video, the outcome of
                       \* the remote call and of the image processing
    pc,                \* main(): the block that runs next
    table_info,        \* main(): table_info
    homography,        \* main(): homography, as the quad it was built from
    kimi_detector,     \* main(): kimi_detector is not None
    try_pos,           \* main(): the place of try_frame_idx in retry_frames
    tried,             \* the frames detect_table_corners was called on
    source,            \* the detection path that table_info came from
    fn_args,           \* a helper of court_lines_detector.py: the function
                       \* called and its arguments
    fn_done,           \* the helper has returned
    fn_ret             \* the value it returned

\* The state of the ball tracker and of the per-frame loop.
trackerVars == <<cfg, frame_count, kf, initialized, missing_frames, mode,
                 bounces, prev_vy, last_bounce_frame, confirm_window,
                 confirmed, result, det, branch, predicts>>

\* The state of a _valid_table call.
validVars == <<vt_args, vt_done, vt_ret>>

\* The state of the detect_table_corners calls on one frame.
detectVars == <<frame, ran, returned, ret, calls>>

\* The state of a TableTennisBallDetector.detect call.
ballVars == <<bd_args, bd_done, bd_ret>>

\* The state of main() around the table detection at startup.
mainVars == <<env, pc, table_info, homography, kimi_detector, try_pos, tried,
              source>>

\* The state of a call of _best_band_pair, _group_lines or _order_corners.
helperVars == <<fn_args, fn_done, fn_ret>>

vars == <<trackerVars, validVars, detectVars, ballVars, mainVars, helperVars>>

----------------------------------------------------------------------------
(* Program constants *)

MODE_TRACKING == 0
MODE_SEARCHING == 1
MODE_DESPERATE == 2
Fps == 30
max_missing == 45
WindowLen == 5
InitialLastBounceFrame == -30

\* Python's None (an absent detection, position, velocity or table_bounds).
None == <<>>

----------------------------------------------------------------------------
(* Bounds of the model *)

\* Frames of video in a session with free inputs.
MaxFrames == 12
\* Frames of video in a session long enough to lose the ball.
LostFrames == 74
\* Frames of video in the session with one gap of missed detections.
GapFrames == 18
\* First frame and length of the gap of missed detections.
GapFirst == 10
GapLen == 5
\* Calls of detect_table_corners made on one frame.
MaxCalls == 2
\* Frames of the per-frame loop in a session that starts at the table
\* detection.
MainFrames == 2

\* Ball detections: two on the table, two beside it, one far away.
NearDets == {<<300, 150>>, <<300, 160>>, <<330, 150>>, <<330, 160>>}
FarDet == <<300, 600>>
\* (x_min, y_min, x_max, y_max) of the table surface.
TableBounds == <<100, 100, 300, 200>>

----------------------------------------------------------------------------
(* Estimator *)

Abs(n) == IF n < 0 THEN -n ELSE n

\* __init__: self.kf.x of a fresh filter, and of a first detection.
KfAt(x, y) == [x |-> x, y |-> y, vx |-> 0, vy |-> 0, ax |-> 0, ay |-> 0]

\* self.kf.predict(): x <- F x with the F of __init__.
KfPredict(k) ==
    [x  |-> k.x + (k.vx \div Fps) + (k.ax \div (2 * Fps * Fps)),
     y  |-> k.y + (k.vy \div Fps) + (k.ay \div (2 * Fps * Fps)),
     vx |-> k.vx + (k.ax \div Fps),
     vy |-> k.vy + (k.ay \div Fps),
     ax |-> k.ax,
     ay |-> k.ay]

\* self.kf.update(z): x <- x + K (z - H x), H selecting (x, y).
KfUpdate(k, z) ==
    LET rx == z[1] - k.x
        ry == z[2] - k.y
    IN  [x  |-> k.x + rx,
         y  |-> k.y + ry,
         vx |-> k.vx + Fps * rx,
         vy |-> k.vy + Fps * ry,
         ax |-> k.ax,
         ay |-> k.ay]

----------------------------------------------------------------------------
(* Helpers of TableTennisBallTracker *)

\* get_search_radius
GetSearchRadius(m) ==
    IF m = MODE_TRACKING THEN 100
    ELSE IF m = MODE_SEARCHING THEN 200
    ELSE 9999

\* get_outlier_threshold
GetOutlierThreshold(m, mf) ==
    IF m = MODE_TRACKING THEN 80 + mf * 8
    ELSE IF m = MODE_SEARCHING THEN 250
    ELSE 9999

\* A plausible slip: the mode is never brought back to Tracking.
UpdateModeNoReset(mf, m) ==
    IF mf >= 12 THEN MODE_DESPERATE
    ELSE IF mf >= 5 THEN MODE_SEARCHING
    ELSE m

\* _update_mode: the new self.mode
UpdateMode(mf, m) ==
    IF mf = 0 THEN MODE_TRACKING
    ELSE IF mf >= 12 THEN MODE_DESPERATE
    ELSE IF mf >= 5 THEN MODE_SEARCHING
    ELSE m

\* deque(maxlen=5).append
Push(w, b) ==
    IF Len(w) < WindowLen THEN Append(w, b) ELSE Append(Tail(w), b)

\* sum(self.confirm_window)
RECURSIVE NDetected(_)
NDetected(w) ==
    IF w = <<>> THEN 0
    ELSE (IF Head(w) THEN 1 ELSE 0) + NDetected(Tail(w))

\* dist > thresh, dist the Euclidean distance of the detection z to the
\* estimator's position
IsOutlier(k, z, thresh) ==
    LET dx == Abs(z[1] - k.x)
        dy == Abs(z[2] - k.y)
    IN  \/ dx > thresh
        \/ dy > thresh
        \/ dx * dx + dy * dy > thresh * thresh

\* A plausible slip: four detections of the window are asked for.
ConfirmNeedsFour(w, c) ==
    IF NDetected(w) >= 4 THEN TRUE
    ELSE IF NDetected(w) <= 1 /\ Len(w) >= 5 THEN FALSE
    ELSE c

\* update, lines 352-357: the new self.confirmed, w the window after the
\* append
Confirm(w, c) ==
    IF NDetected(w) >= 3 THEN TRUE
    ELSE IF NDetected(w) <= 1 /\ Len(w) >= 5 THEN FALSE
    ELSE c

\* update, lines 365-371: on_table for the estimated position (px, py);
\* margin_x is 0.1 of the table width, margin_y 0.15 of its height
OnTable(tb, px, py) ==
    IF tb = None THEN TRUE
    ELSE LET tx1 == tb[1]
             ty1 == tb[2]
             tx2 == tb[3]
             ty2 == tb[4]
         IN  /\ 100 * tx1 - 10 * (tx2 - tx1) <= 100 * px
             /\ 100 * px <= 100 * tx2 + 10 * (tx2 - tx1)
             /\ 100 * ty1 - 15 * (ty2 - ty1) <= 100 * py
             /\ 100 * py <= 100 * ty2 + 15 * (ty2 - ty1)

\* A plausible slip: the table test is left out of the condition.
BounceDeclaredOffTable(pvy, cvy, on_table, frames_since_last) ==
    /\ 10 * pvy > 3
    /\ cvy < 0
    /\ frames_since_last > 8

\* A plausible slip: the minimum gap is left out of the condition.
BounceDeclaredNoGap(pvy, cvy, on_table, frames_since_last) ==
    /\ 10 * pvy > 3
    /\ cvy < 0
    /\ on_table

\* update, line 375: prev_vy > 0.3 and cur_vy < 0 and on_table and
\* frames_since_last > 8
BounceDeclared(pvy, cvy, on_table, frames_since_last) ==
    /\ 10 * pvy > 3
    /\ cvy < 0
    /\ on_table
    /\ frames_since_last > 8

\* A plausible slip: the prediction is shown without the confirmed test.
ShowPredictedUnconfirmed(c, mf) == mf <= 8

\* update, line 412: show
ShowPredicted(c, mf) == c /\ mf <= 8

\* A plausible slip: the ball is given up one frame early.
IsLostAtMax(mf) == mf >= max_missing

\* update, line 402: the ball is lost
IsLost(mf) == mf > max_missing

\* A plausible slip: every call without a detection reports a prediction.
MissIsPredictedAlways(init) == TRUE

\* update, lines 397, 404 and 417: is_predicted of a call without a
\* detection, init being self.initialized
MissIsPredicted(init) == init

\* A plausible slip: the rejected detection still corrects the estimator.
OutlierKfCorrected(k, z) == KfUpdate(KfPredict(k), z)

\* update, lines 330-335: the estimator after a rejected detection z
OutlierKf(k, z) == KfPredict(k)

\* update, lines 347-348: the estimator after an accepted detection z
AcceptKf(k, z) == KfUpdate(KfPredict(k), z)

\* A plausible slip: the bounce is reported and not recorded.
DropBounce(bs, ev) == bs

\* A plausible slip: only the latest bounce is kept.
KeepLatestBounce(bs, ev) == <<ev>>

\* update, lines 378-381: self.bounces.append
AppendBounce(bs, ev) == Append(bs, ev)

Position(k) == <<k.x, k.y>>
Velocity(k) == <<k.vx, k.vy>>

----------------------------------------------------------------------------
(* update(detection_center, frame_num); m1 is self.mode after the        *)
(* _update_mode() call that opens the method.                             *)

\* Lines 319-323 and 346-391: a first detection, or an accepted one.
Accepted(d, fn, m1) ==
    LET k1 == IF initialized THEN AcceptKf(kf, d) ELSE KfAt(d[1], d[2])
        w1 == Push(confirm_window, TRUE)
        c1 == Confirm(w1, confirmed)
        cur_vy == k1.vy
        on_table == OnTable(cfg.table_bounds, k1.x, k1.y)
        is_bounce ==
            BounceDeclared(prev_vy, cur_vy, on_table, fn - last_bounce_frame)
    IN  /\ kf' = k1
        /\ initialized' = TRUE
        /\ missing_frames' = 0
        /\ mode' = m1
        /\ confirm_window' = w1
        /\ confirmed' = c1
        /\ last_bounce_frame' = IF is_bounce THEN fn ELSE last_bounce_frame
        /\ bounces' =
             IF is_bounce
             THEN AppendBounce(bounces,
                               [frame |-> fn, image_xy |-> Position(k1)])
             ELSE bounces
        /\ prev_vy' = cur_vy
        /\ result' = [position |-> IF c1 THEN Position(k1) ELSE None,
                      velocity |-> Velocity(k1),
                      is_bounce |-> is_bounce,
                      is_predicted |-> FALSE,
                      mode |-> m1]
        /\ branch' = IF initialized THEN "accepted" ELSE "first"
        /\ predicts' = IF initialized THEN 1 ELSE 0

\* Lines 329-344: a detection farther from the estimate than the threshold.
Rejected(d, fn, m1) ==
    LET k1 == OutlierKf(kf, d)
        mf1 == missing_frames + 1
        m2 == UpdateMode(mf1, m1)
    IN  /\ confirm_window' = Push(confirm_window, FALSE)
        /\ kf' = k1
        /\ missing_frames' = mf1
        /\ mode' = m2
        /\ result' = [position |-> IF confirmed THEN Position(k1) ELSE None,
                      velocity |-> Velocity(k1),
                      is_bounce |-> FALSE,
                      is_predicted |-> TRUE,
                      mode |-> m2]
        /\ branch' = "outlier"
        /\ predicts' = 1
        /\ UNCHANGED <<initialized, confirmed, bounces, prev_vy,
                       last_bounce_frame>>

\* Lines 393-419: no detection.
NoDetection(fn, m1) ==
    LET mf1 == missing_frames + 1
        m2 == UpdateMode(mf1, m1)
        k1 == KfPredict(kf)
    IN  /\ confirm_window' = Push(confirm_window, FALSE)
        /\ IF ~initialized
           THEN /\ mode' = m1
                /\ result' = [position |-> None, velocity |-> None,
                              is_bounce |-> FALSE,
                              is_predicted |-> MissIsPredicted(initialized),
                              mode |-> m1]
                /\ branch' = "idle"
                /\ predicts' = 0
                /\ UNCHANGED <<kf, missing_frames, confirmed>>
           ELSE IF IsLost(mf1)
           THEN /\ missing_frames' = mf1
                /\ mode' = m2
                /\ confirmed' = FALSE
                /\ result' = [position |-> None, velocity |-> None,
                              is_bounce |-> FALSE,
                              is_predicted |-> MissIsPredicted(initialized),
                              mode |-> m2]
                /\ branch' = "lost"
                /\ predicts' = 0
                /\ UNCHANGED kf
           ELSE /\ missing_frames' = mf1
                /\ mode' = m2
                /\ kf' = k1
                /\ result' = [position |-> IF ShowPredicted(confirmed, mf1)
                                           THEN Position(k1) ELSE None,
                              velocity |-> Velocity(k1),
                              is_bounce |-> FALSE,
                              is_predicted |-> MissIsPredicted(initialized),
                              mode |-> m2]
                /\ branch' = "miss"
                /\ predicts' = 1
                /\ UNCHANGED confirmed
        /\ UNCHANGED <<initialized, bounces, prev_vy, last_bounce_frame>>

\* main(), lines 1150 and 1196: the next frame's update(ball_center,
\* frame_count) with ball_center = d.
Update(d) ==
    /\ pc = "loop"
    /\ frame_count < cfg.horizon
    /\ LET fn == frame_count + 1
           m1 == UpdateMode(missing_frames, mode)
       IN  /\ frame_count' = fn
           /\ det' = d
           /\ cfg' = cfg
           /\ UNCHANGED <<validVars, detectVars, ballVars, mainVars, helperVars>>
           /\ IF d = None
              THEN NoDetection(fn, m1)
              ELSE IF initialized
                      /\ IsOutlier(kf, d, GetOutlierThreshold(m1, missing_frames))
              THEN Rejected(d, fn, m1)
              ELSE Accepted(d, fn, m1)

\* main(), lines 1185-1194: what the ball detector may hand to update() at
\* frame fn of the session.
Inputs(fn) ==
    IF fn \in cfg.gap THEN {None}
    ELSE IF cfg.gap = {} THEN cfg.dets \cup {None}
    ELSE cfg.dets

Next == \E d \in Inputs(frame_count + 1) : Update(d)

----------------------------------------------------------------------------
(* court_lines_detector.py: the geometry validator _valid_table.            *)
(*                                                                         *)
(* A point is <<x, y>> in whole pixels and a quad a sequence of points, as *)
(* the rows of the corners array.  The quads of the model have sides of    *)
(* whole length, so that np.linalg.norm is computed exactly.               *)

\* min_area, the default of _valid_table
MinArea == 2000
\* aspect_range in tenths: the default of _valid_table, and the range that
\* _strategy_find_table_lines passes
DefaultAspect == <<14, 50>>
\* A plausible slip: a range narrower than the default.
LinesAspectNarrow == <<15, 45>>
LinesAspect == <<13, 55>>

\* cv2.contourArea (not oriented), doubled: the shoelace sum of the contour
Area2(q) ==
    LET n == Len(q)
        nxt(i) == IF i = n THEN 1 ELSE i + 1
        cross(i) == q[i][1] * q[nxt(i)][2] - q[nxt(i)][1] * q[i][2]
        RECURSIVE sum(_)
        sum(i) == IF i = 0 THEN 0 ELSE cross(i) + sum(i - 1)
    IN  Abs(sum(n))

\* np.linalg.norm(a - b)
Norm(a, b) ==
    LET dx == Abs(a[1] - b[1])
        dy == Abs(a[2] - b[2])
    IN  CHOOSE r \in 0 .. (dx + dy) : r * r = dx * dx + dy * dy

\* tw and th of _valid_table, doubled: w1 + w2 and h1 + h2
Width2(q) == Norm(q[2], q[1]) + Norm(q[3], q[4])
Height2(q) == Norm(q[4], q[1]) + Norm(q[3], q[2])

\* aspect_range[0] <= tw / (th + 1e-6) <= aspect_range[1], the range r in
\* tenths.  With sides of whole length the 1e-6 of the divisor decides the
\* comparison only where tw / th is the lower limit itself, which it takes
\* below the limit.
AspectInRange(tw2, th2, r) ==
    /\ r[1] * th2 < 10 * tw2
    /\ 10 * tw2 <= r[2] * th2

\* A plausible slip: the cap on the height is left out.
ValidTableNoHeightCap(corners, frame_h, frame_w, min_area, aspect_range) ==
    IF corners = None \/ Len(corners) # 4 THEN FALSE
    ELSE IF Area2(corners) < 2 * min_area THEN FALSE
    ELSE LET tw2 == Width2(corners)
             th2 == Height2(corners)
         IN  IF tw2 < 80 \/ th2 < 40 THEN FALSE
             ELSE IF ~AspectInRange(tw2, th2, aspect_range) THEN FALSE
             ELSE IF frame_w > 0 /\ tw2 > frame_w THEN FALSE
             ELSE TRUE

\* _valid_table(corners, frame_h, frame_w, min_area, aspect_range)
ValidTable(corners, frame_h, frame_w, min_area, aspect_range) ==
    IF corners = None \/ Len(corners) # 4 THEN FALSE
    ELSE IF Area2(corners) < 2 * min_area THEN FALSE
    ELSE LET tw2 == Width2(corners)
             th2 == Height2(corners)
         IN  IF tw2 < 80 \/ th2 < 40 THEN FALSE
             ELSE IF ~AspectInRange(tw2, th2, aspect_range) THEN FALSE
             ELSE IF frame_w > 0 /\ tw2 > frame_w THEN FALSE
             ELSE IF frame_h > 0 /\ 5 * th2 > 4 * frame_h THEN FALSE
             ELSE TRUE

\* The quad [TL, TR, BR, BL] of an upright rectangle.
Rect(x, y, w, h) == <<<<x, y>>, <<x + w, y>>, <<x + w, y + h>>, <<x, y + h>>>>

\* The quad of a table seen in perspective: the far edge is 6 k shorter than
\* the near edge of length w, the sides have length 5 k.
Trapezoid(x, y, w, k) ==
    <<<<x + 3 * k, y>>, <<x + w - 3 * k, y>>, <<x + w, y + 4 * k>>,
      <<x, y + 4 * k>>>>

\* A rectangle's corners in the order TL, TR, BL, BR: a contour that crosses
\* itself and encloses no area.
BowTie(x, y, w, h) == <<<<x, y>>, <<x + w, y>>, <<x, y + h>>, <<x + w, y + h>>>>

\* Quads handed to the validator.
RectWidths == {60, 100, 130, 140, 200, 320, 330, 550}
RectHeights == {30, 100, 144, 150}
TestQuads ==
    {Rect(100, 100, w, h) : w \in RectWidths, h \in RectHeights}
        \cup {Trapezoid(100, 100, w, k) : w \in {200, 320, 400}, k \in {10, 30}}
        \cup {BowTie(100, 100, 80, 60), BowTie(100, 100, 160, 120)}
        \cup {<<<<100, 100>>, <<300, 100>>, <<300, 200>>>>}

\* (height, width) of the frames.
FrameDims == {<<360, 640>>, <<720, 1280>>}

\* One call of _valid_table, as the strategies make it: the frame's height
\* and width, the default min_area, one of the two aspect ranges.
ValidTableCall ==
    /\ ~vt_done
    /\ vt_done' = TRUE
    /\ vt_ret' = ValidTable(vt_args.corners, vt_args.frame_h, vt_args.frame_w,
                            vt_args.min_area, vt_args.aspect_range)
    /\ UNCHANGED vt_args
    /\ UNCHANGED <<trackerVars, detectVars, ballVars, mainVars,
                   helperVars>>

NextValid == ValidTableCall

\* No _valid_table call is under way.
ValidIdle ==
    /\ vt_args = None
    /\ vt_done = FALSE
    /\ vt_ret = FALSE

----------------------------------------------------------------------------
(* court_lines_detector.py: detect_table_corners and its strategies.        *)
(*                                                                         *)
(* The image processing of a strategy (OpenCV, outside the repository) is  *)
(* what the frame holds for it: found[s] is the sequence of quads that     *)
(* strategy s derives from the frame, in the order in which it hands them  *)
(* to _valid_table; net_y is the net line that _strategy_find_table_lines  *)
(* finds, None or <<y>>.  _kmeans_binarize calls cv2.kmeans with           *)
(* KMEANS_PP_CENTERS and no seed, so the label image, and with it the      *)
(* quads of _strategy_kmeans_hough, is one of frame.clusterings, chosen    *)
(* anew at every call.                                                     *)

\* A plausible slip: the order of the module's docstring, rectangle first.
StrategiesRectangleFirst ==
    <<"find_table_lines", "rectangle", "border_lines", "kmeans_hough",
      "direct_hough", "surface_color">>

\* detect_table_corners, lines 1013 and 1018-1020: the strategies in the
\* order of the calls
Strategies ==
    <<"find_table_lines", "border_lines", "rectangle", "kmeans_hough",
      "direct_hough", "surface_color">>

\* A plausible slip: a quad is returned without the validator's word.
FirstFound(cands, h, w, aspect_range) ==
    IF cands = <<>> THEN None ELSE Head(cands)

\* The first quad of cands that passes _valid_table for the frame, as in
\* "if _valid_table(corners, h, w): return corners" pass after pass
RECURSIVE FirstValid(_, _, _, _)
FirstValid(cands, h, w, aspect_range) ==
    IF cands = <<>> THEN None
    ELSE IF ValidTable(Head(cands), h, w, MinArea, aspect_range)
         THEN Head(cands)
         ELSE FirstValid(Tail(cands), h, w, aspect_range)

\* _strategy_rectangle, lines 835-841: of the quads that pass _valid_table,
\* the first of the largest area (a stable sort, largest first)
LargestValid(cands, h, w) ==
    LET ok == {i \in 1 .. Len(cands) :
                 ValidTable(cands[i], h, w, MinArea, DefaultAspect)}
    IN  IF ok = {} THEN None
        ELSE cands[CHOOSE i \in ok :
                     \A j \in ok :
                        \/ Area2(cands[j]) < Area2(cands[i])
                        \/ Area2(cands[j]) = Area2(cands[i]) /\ i <= j]

\* What strategy s returns on frame f, as (corners, net_y); km is the
\* sequence of quads that this call's clustering leads to.
StrategyResult(s, f, km) ==
    IF s = "find_table_lines"
    THEN LET c == FirstValid(f.found[s], f.h, f.w, LinesAspect)
         IN  IF c = None THEN <<None, None>> ELSE <<c, f.net_y>>
    ELSE IF s = "rectangle"
    THEN <<LargestValid(f.found[s], f.h, f.w), None>>
    ELSE IF s = "kmeans_hough"
    THEN <<FirstValid(km, f.h, f.w, DefaultAspect), None>>
    ELSE <<FirstValid(f.found[s], f.h, f.w, DefaultAspect), None>>

\* detect_table_corners, lines 1013-1026: the next strategy runs; its quad
\* is returned, or (None, None) after the last strategy.
RunStrategy(km) ==
    /\ ~returned
    /\ Len(ran) < Len(Strategies)
    /\ LET s == Strategies[Len(ran) + 1]
           r == StrategyResult(s, frame, km)
           ran1 == Append(ran, [strategy |-> s, corners |-> r[1]])
       IN  /\ ran' = ran1
           /\ IF r[1] # None
              THEN /\ returned' = TRUE
                   /\ ret' = r
                   /\ calls' = Append(calls, r)
              ELSE IF Len(ran1) = Len(Strategies)
              THEN /\ returned' = TRUE
                   /\ ret' = <<None, None>>
                   /\ calls' = Append(calls, <<None, None>>)
              ELSE UNCHANGED <<returned, ret, calls>>
    /\ UNCHANGED frame
    /\ UNCHANGED <<trackerVars, validVars, ballVars, mainVars,
                   helperVars>>

\* detect_table_corners is called on the same frame once more.
CallAgain ==
    /\ returned
    /\ Len(calls) < MaxCalls
    /\ ran' = <<>>
    /\ returned' = FALSE
    /\ ret' = <<None, None>>
    /\ UNCHANGED <<frame, calls>>
    /\ UNCHANGED <<trackerVars, validVars, ballVars, mainVars,
                   helperVars>>

NextDetect ==
    \/ \E km \in frame.clusterings : RunStrategy(km)
    \/ CallAgain

\* Quads that the strategies derive from a frame: one that passes the
\* validator, at a place x of its own per strategy; a larger one; one that
\* passes with the aspect range (1.3, 5.5) only; one too small.
Good(x) == Rect(x, 100, 200, 100)
Large(x) == Rect(x, 100, 320, 144)
Wide(x) == Rect(x, 100, 520, 100)
Small(x) == Rect(x, 100, 60, 30)

\* The frames detect_table_corners is called on.
Frames ==
    {[h |-> 720, w |-> 1280, net_y |-> <<150>>,
      found |-> [s \in {Strategies[i] : i \in 1 .. Len(Strategies)} |->
                    IF s = "find_table_lines" THEN f0
                    ELSE IF s = "border_lines" THEN f1
                    ELSE IF s = "rectangle" THEN f2
                    ELSE IF s = "direct_hough" THEN f4
                    ELSE IF s = "surface_color" THEN f5
                    ELSE <<>>],
      clusterings |-> ks] :
        f0 \in {<<>>, <<Small(100)>>, <<Wide(100)>>},
        f1 \in {<<>>, <<Small(110)>>, <<Wide(110), Good(110)>>},
        f2 \in {<<>>, <<Good(120), Large(120)>>},
        ks \in {{<<>>}, {<<Good(130)>>}, {<<>>, <<Good(130)>>},
                {<<Good(130)>>, <<Small(130), Good(135)>>}},
        f4 \in {<<>>, <<Good(140)>>},
        f5 \in {<<>>, <<Small(150)>>, <<Good(150)>>}}

\* No detect_table_corners call is under way.
DetectIdle ==
    /\ frame = None
    /\ ran = <<>>
    /\ returned = FALSE
    /\ ret = <<None, None>>
    /\ calls = <<>>

----------------------------------------------------------------------------
(* main.py: TableTennisBallDetector.detect, step 5, the choice among the   *)
(* candidates that steps 0 to 4 (OpenCV masks and contours) have found.    *)
(*                                                                         *)
(* A candidate is [center, conf], conf in units of 0.00001; its bbox and   *)
(* area play no part in the choice.  The centers of the model are at whole *)
(* distances of prev_center and the radii divide 65000, so that the        *)
(* blended confidence is computed exactly.                                 *)

\* dist of a candidate to prev_center
Dist(c, prev_center) == Norm(c.center, prev_center)

\* c['conf'] * 0.35 + proximity * 0.65, proximity = 1.0 - dist / max_dist
Blend(c, prev_center, max_dist) ==
    (35 * c.conf) \div 100
        + (65000 * (max_dist - Dist(c, prev_center))) \div max_dist

\* max(cs, key=lambda c: c['conf']): the first candidate of the highest conf
MaxConf(cs) ==
    cs[CHOOSE i \in 1 .. Len(cs) :
          \A j \in 1 .. Len(cs) :
             \/ cs[j].conf < cs[i].conf
             \/ cs[j].conf = cs[i].conf /\ i <= j]

\* The candidates of cs within max_dist of prev_center, in their order,
\* each with its blended confidence (near_candidates).
RECURSIVE NearCandidates(_, _, _)
NearCandidates(cs, prev_center, max_dist) ==
    IF cs = <<>> THEN <<>>
    ELSE LET c == Head(cs)
             rest == NearCandidates(Tail(cs), prev_center, max_dist)
         IN  IF Dist(c, prev_center) < max_dist
             THEN <<[center |-> c.center,
                     conf |-> Blend(c, prev_center, max_dist)]>> \o rest
             ELSE rest

\* A plausible slip: the best of all candidates, near ones at their blended
\* confidence and far ones at their own.
PickBestOfAll(candidates, prev_center, search_radius) ==
    IF candidates = <<>> THEN None
    ELSE IF prev_center = None THEN MaxConf(candidates)
    ELSE MaxConf([i \in 1 .. Len(candidates) |->
                    IF Dist(candidates[i], prev_center) < search_radius
                    THEN [center |-> candidates[i].center,
                          conf |-> Blend(candidates[i], prev_center,
                                         search_radius)]
                    ELSE candidates[i]])

\* detect, lines 708-730: None without candidates; with a prev_center, the
\* best of the near candidates if there is one; else the best of all.
PickBest(candidates, prev_center, search_radius) ==
    IF candidates = <<>> THEN None
    ELSE LET near_candidates ==
                 IF prev_center = None THEN <<>>
                 ELSE NearCandidates(candidates, prev_center, search_radius)
         IN  IF near_candidates # <<>> THEN MaxConf(near_candidates)
             ELSE MaxConf(candidates)

\* One call of detect.
BallDetect ==
    /\ ~bd_done
    /\ bd_done' = TRUE
    /\ bd_ret' = PickBest(bd_args.candidates, bd_args.prev_center,
                          bd_args.search_radius)
    /\ UNCHANGED bd_args
    /\ UNCHANGED <<trackerVars, validVars, detectVars, mainVars,
                   helperVars>>

NextBall == BallDetect

\* The candidates of a frame: at distances 0, 50, 90, 100, 150 and 250 of
\* the previous position (300, 150).
CandidatePool ==
    {[center |-> <<300, 150>>, conf |-> 30000],
     [center |-> <<330, 190>>, conf |-> 90000],
     [center |-> <<354, 222>>, conf |-> 30000],
     [center |-> <<300, 250>>, conf |-> 60000],
     [center |-> <<390, 270>>, conf |-> 30000],
     [center |-> <<450, 350>>, conf |-> 90000]}

\* The arguments of detect: up to two candidates, with or without a
\* previous position, the search radius of Tracking or Searching mode.
BallInputs ==
    [candidates : {<<>>} \cup {<<a>> : a \in CandidatePool}
                    \cup {<<a, b>> : a \in CandidatePool, b \in CandidatePool},
     prev_center : {None, <<300, 150>>},
     search_radius : {GetSearchRadius(MODE_TRACKING),
                      GetSearchRadius(MODE_SEARCHING)}]

\* No detect call is under way.
BallIdle ==
    /\ bd_args = None
    /\ bd_done = FALSE
    /\ bd_ret = None

----------------------------------------------------------------------------
(* main.py, lines 806-948: the table detection at startup, and            *)
(* kimi_k2_detector.py: KimiK2HybridDetector.detect.                       *)
(*                                                                         *)
(* env holds what the run meets: env.kimi the use_kimi argument (with      *)
(* KIMI_AVAILABLE), the mode of the remote detector, the outcome of its    *)
(* API call and, for the reasoning mode, of the image processing that      *)
(* _detect_table_reasoning and _detect_table_local_cv do on the first      *)
(* frame; env.calib the calibration file; env.ttnet the corners of the     *)
(* TTNet detector; env.video the frames of the video, None where cap.read  *)
(* fails.  table_keypoint_detector is not among the sources, so            *)
(* KEYPOINT_AVAILABLE is False and use_keypoint_detector stays False.      *)
(* The frames are at most 1280 wide: _frame_to_base64_jpeg sends them      *)
(* unscaled.                                                               *)

\* A plausible slip: a frame every 30.
RetryFramesEvery30 == <<0, 30, 60, 90, 120>>

\* main(), line 887: retry_frames
RetryFrames == <<0, 30, 60, 90, 150>>

\* detect_table_corners(f) as one call: the result of the first strategy,
\* from the i-th on, that returns a quad.
RECURSIVE DetectFrom(_, _, _)
DetectFrom(i, f, km) ==
    IF i > Len(Strategies) THEN <<None, None>>
    ELSE LET r == StrategyResult(Strategies[i], f, km)
         IN  IF r[1] # None THEN r ELSE DetectFrom(i + 1, f, km)

DetectTableCorners(f, km) == DetectFrom(1, f, km)

\* _detect_table_vision: the corners parsed from the reply; an exception of
\* the call (a timeout is one) or of the parsing ends in the except clause,
\* a reply without 4 corners in the last line.
DetectTableVision(k) ==
    IF k.remote.kind = "quad"
    THEN <<k.remote.corners, k.remote.net_y>>
    ELSE <<None, None>>

\* _detect_table_reasoning, lines 621-638: the reply's corners are rejected
\* against the surface bbox (sx1, sy1, sx2, sy2) and the frame.
K2Rejected(c, surface, h, w) ==
    LET tw == Norm(c[2], c[1])
        th_t == Norm(c[4], c[1])
        surf_w == surface[3] - surface[1]
        surf_h == surface[4] - surface[2]
        \* 4 (cx - surf_cx) and 4 (cy - surf_cy)
        dx4 == (c[1][1] + c[2][1] + c[3][1] + c[4][1])
                 - 2 * (surface[1] + surface[3])
        dy4 == (c[1][2] + c[2][2] + c[3][2] + c[4][2])
                 - 2 * (surface[2] + surface[4])
        m == IF surf_w > surf_h THEN surf_w ELSE surf_h
    IN  \/ 25 * (dx4 * dx4 + dy4 * dy4) > 9 * 16 * m * m
        \/ 10 * tw > 7 * w
        \/ 100 * th_t > 55 * h
        \/ 2 * tw > 5 * (surf_w + 1)
        \/ 4 * tw < surf_w + 1
        \/ th_t < 10

\* A plausible slip: a failed remote call ends the detection without the
\* local fallback.
DetectTableReasoningNoFallback(k, h, w) ==
    IF k.surface = None \/ ~k.enough_lines THEN k.local_cv
    ELSE IF /\ k.remote.kind = "quad"
            /\ ~K2Rejected(k.remote.corners, k.surface, h, w)
    THEN <<k.remote.corners, k.remote.net_y>>
    ELSE <<None, None>>

\* _detect_table_reasoning: the local fallback without a surface or with
\* fewer than 3 lines near it; else the reply's corners, unless the call
\* raised, the reply held no 4 corners or the corners were rejected, which
\* all end in the local fallback.
DetectTableReasoning(k, h, w) ==
    IF k.surface = None \/ ~k.enough_lines THEN k.local_cv
    ELSE IF /\ k.remote.kind = "quad"
            /\ ~K2Rejected(k.remote.corners, k.surface, h, w)
    THEN <<k.remote.corners, k.remote.net_y>>
    ELSE k.local_cv

\* KimiK2Detector.detect_table on the readable frame f
DetectTable(k, f) ==
    IF k.vision THEN DetectTableVision(k)
    ELSE DetectTableReasoning(k, f.h, f.w)

\* main(), lines 932-935: _table_bounds
BoundsOf(c) ==
    LET xs == {c[i][1] : i \in 1 .. Len(c)}
        ys == {c[i][2] : i \in 1 .. Len(c)}
        Min(S) == CHOOSE v \in S : \A u \in S : v <= u
        Max(S) == CHOOSE v \in S : \A u \in S : v >= u
    IN  <<Min(xs), Min(ys), Max(xs), Max(ys)>>

\* main(), lines 824-848: the Kimi K2 block.  KimiK2HybridDetector.detect
\* locks on any 4 corners that detect_table returns.
KimiDetect ==
    /\ pc = "kimi"
    /\ pc' = "local"
    /\ IF env.kimi.use_kimi /\ env.video[0] # None
       THEN LET r == DetectTable(env.kimi, env.video[0])
            IN  IF r[1] # None /\ Len(r[1]) = 4
                THEN /\ homography' = r[1]
                     /\ table_info' = [corners |-> r[1], net_y |-> r[2]]
                     /\ kimi_detector' = TRUE
                     /\ source' = "kimi"
                ELSE /\ kimi_detector' = FALSE
                     /\ UNCHANGED <<homography, table_info, source>>
       ELSE /\ kimi_detector' = env.kimi.use_kimi
            /\ UNCHANGED <<homography, table_info, source>>
    /\ UNCHANGED <<env, try_pos, tried>>
    /\ UNCHANGED <<trackerVars, validVars, detectVars, ballVars,
                   helperVars>>

\* main(), lines 851-885: the calibration file or TTNet, and whether the
\* retry loop is entered.
LocalFallback ==
    /\ pc = "local"
    /\ IF table_info = None /\ homography = None
       THEN IF env.calib # None
            THEN IF env.calib.kind = "corners"
                 THEN /\ table_info' = [corners |-> env.calib.corners,
                                        net_y |-> env.calib.net_y]
                      /\ homography' = env.calib.corners
                      /\ source' = "calibration"
                 ELSE /\ homography' = env.calib.corners
                      /\ UNCHANGED <<table_info, source>>
            ELSE IF env.ttnet # None
            THEN /\ table_info' = [corners |-> env.ttnet, net_y |-> None]
                 /\ homography' = env.ttnet
                 /\ source' = "ttnet"
            ELSE UNCHANGED <<table_info, homography, source>>
       ELSE UNCHANGED <<table_info, homography, source>>
    /\ pc' = IF table_info' = None /\ homography' = None
             THEN "retry" ELSE "tracker"
    /\ UNCHANGED <<env, kimi_detector, try_pos, tried>>
    /\ UNCHANGED <<trackerVars, validVars, detectVars, ballVars,
                   helperVars>>

\* main(), lines 888-912: one turn of the retry loop.
TryFrame ==
    /\ pc = "retry"
    /\ try_pos <= Len(RetryFrames)
    /\ LET try_frame_idx == RetryFrames[try_pos]
           try_frame == env.video[try_frame_idx]
           next_pc == IF try_pos = Len(RetryFrames) THEN "tracker" ELSE "retry"
       IN  IF try_frame = None
           THEN /\ try_pos' = try_pos + 1
                /\ pc' = next_pc
                /\ UNCHANGED <<table_info, homography, source, tried>>
           ELSE \E km \in try_frame.clusterings :
                   LET r == DetectTableCorners(try_frame, km)
                   IN  /\ tried' = Append(tried, try_frame_idx)
                       /\ IF r[1] # None
                          THEN /\ table_info' = [corners |-> r[1],
                                                 net_y |-> r[2]]
                               /\ homography' = r[1]
                               /\ source' = "court_lines"
                               /\ pc' = "tracker"
                               /\ UNCHANGED try_pos
                          ELSE /\ try_pos' = try_pos + 1
                               /\ pc' = next_pc
                               /\ UNCHANGED <<table_info, homography, source>>
    /\ UNCHANGED <<env, kimi_detector>>
    /\ UNCHANGED <<trackerVars, validVars, detectVars, ballVars,
                   helperVars>>

\* main(), lines 929-948: the tracker is built with the bounds of the
\* table and the per-frame loop is entered.
StartLoop ==
    /\ pc = "tracker"
    /\ pc' = "loop"
    /\ cfg' = [cfg EXCEPT !.table_bounds =
                 IF table_info # None /\ table_info.corners # None
                 THEN BoundsOf(table_info.corners) ELSE None]
    /\ UNCHANGED <<frame_count, kf, initialized, missing_frames, mode,
                   bounces, prev_vy, last_bounce_frame, confirm_window,
                   confirmed, result, det, branch, predicts>>
    /\ UNCHANGED <<env, table_info, homography, kimi_detector, try_pos,
                   tried, source>>
    /\ UNCHANGED <<validVars, detectVars, ballVars, helperVars>>

NextMain ==
    \/ KimiDetect
    \/ LocalFallback
    \/ TryFrame
    \/ StartLoop
    \/ \E d \in Inputs(frame_count + 1) : Update(d)

\* A frame of the video in which the border scan of detect_table_corners
\* derives the quads cands and the other strategies none.
VideoFrame(cands) ==
    [h |-> 720, w |-> 1280, net_y |-> <<150>>,
     found |-> [s \in {Strategies[i] : i \in 1 .. Len(Strategies)} |->
                   IF s = "border_lines" THEN cands ELSE <<>>],
     clusterings |-> {<<>>}]

\* The frames that main() may seek: those of retry_frames and frame 120.
FrameIdx == {0, 30, 60, 90, 120, 150}

\* The frame at index i of a video, by its kind.
Shot(kind, i) ==
    IF kind = "unreadable" THEN None
    ELSE IF kind = "no_table" THEN VideoFrame(<<>>)
    ELSE VideoFrame(<<Small(100 + i), Good(100 + i)>>)

\* The videos: any kind at frames 0 and 30, three courses after them.
Videos ==
    {[i \in FrameIdx |-> Shot(k[i], i)] :
        k \in {k \in [FrameIdx -> {"unreadable", "no_table", "table"}] :
                 /\ k[120] = "no_table"
                 /\ <<k[60], k[90], k[150]>> \in
                       {<<"no_table", "no_table", "no_table">>,
                        <<"no_table", "table", "table">>,
                        <<"unreadable", "no_table", "table">>}}}

\* The surface bbox that _find_table_surface finds in the first frame, and
\* the quads that _detect_table_local_cv builds within it.
SurfaceBox == <<100, 100, 300, 200>>
LocalCvQuads == {Rect(106, 100, 188, 100), Rect(106, 100, 188, 30)}

\* The outcomes of the remote call: an exception, a timeout, a reply
\* without 4 corners, a reply with corners.
RemoteOutcomes ==
    {[kind |-> x, corners |-> None, net_y |-> None] :
        x \in {"raises", "timeout", "unparsable"}}
      \cup {[kind |-> "quad", corners |-> q, net_y |-> <<150>>] :
              q \in {Good(100), Rect(100, 100, 200, 200),
                     Rect(700, 400, 200, 100), Small(100)}}

\* What the remote detector meets: not used; the vision mode; the reasoning
\* mode without a surface, and with one.
KimiEnvs ==
    {[use_kimi |-> FALSE, vision |-> FALSE,
      remote |-> [kind |-> "raises", corners |-> None, net_y |-> None],
      surface |-> None, enough_lines |-> FALSE, local_cv |-> <<None, None>>]}
      \cup {[use_kimi |-> TRUE, vision |-> TRUE, remote |-> r,
             surface |-> None, enough_lines |-> FALSE,
             local_cv |-> <<None, None>>] : r \in RemoteOutcomes}
      \cup {[use_kimi |-> TRUE, vision |-> FALSE, remote |-> r,
             surface |-> None, enough_lines |-> FALSE,
             local_cv |-> <<None, None>>] : r \in RemoteOutcomes}
      \cup {[use_kimi |-> TRUE, vision |-> FALSE, remote |-> r,
             surface |-> SurfaceBox, enough_lines |-> l,
             local_cv |-> <<q, <<150>>>>] :
               r \in RemoteOutcomes, l \in BOOLEAN, q \in LocalCvQuads}

\* The calibration file: none, one with corners, one with lines.
Calibs ==
    {None,
     [kind |-> "corners", corners |-> Good(60), net_y |-> <<150>>],
     [kind |-> "lines", corners |-> Good(60), net_y |-> None]}

\* main() has entered the per-frame loop; the table is the one that the
\* tracker's bounds come from.
InLoop ==
    /\ env = None
    /\ pc = "loop"
    /\ table_info = IF cfg.table_bounds = None THEN None
                    ELSE [corners |-> Good(100), net_y |-> None]
    /\ homography = IF cfg.table_bounds = None THEN None ELSE Good(100)
    /\ kimi_detector = FALSE
    /\ try_pos = 1
    /\ tried = <<>>
    /\ source = "none"

----------------------------------------------------------------------------
(* court_lines_detector.py: the helpers _order_corners, _group_lines and   *)
(* _best_band_pair, each called once on its arguments.                     *)
(*                                                                         *)
(* Coordinates, positions and peaks are whole numbers.  The means that     *)
(* _group_lines keeps are held as sum and count, and the scores of         *)
(* _best_band_pair as fractions, so that both are compared exactly and not *)
(* in the floating point of the code.                                      *)

\* np.argmin and np.argmax over v[1..n]: the first place of the least and
\* of the greatest value.
ArgMin(v) ==
    CHOOSE i \in 1 .. Len(v) :
        /\ \A j \in 1 .. Len(v) : v[i] <= v[j]
        /\ \A j \in 1 .. (i - 1) : v[j] > v[i]
ArgMax(v) ==
    CHOOSE i \in 1 .. Len(v) :
        /\ \A j \in 1 .. Len(v) : v[i] >= v[j]
        /\ \A j \in 1 .. (i - 1) : v[j] < v[i]

\* _order_corners: s is x + y and d is y - x of each point; the result is
\* [tl, tr, br, bl].
OrderCorners(pts) ==
    LET s == [i \in 1 .. Len(pts) |-> pts[i][1] + pts[i][2]]
        d == [i \in 1 .. Len(pts) |-> pts[i][2] - pts[i][1]]
    IN  <<pts[ArgMin(s)], pts[ArgMin(d)], pts[ArgMax(s)], pts[ArgMax(d)]>>

OrderCornersCall ==
    /\ ~fn_done
    /\ fn_args.fn = "_order_corners"
    /\ fn_done' = TRUE
    /\ fn_ret' = OrderCorners(fn_args.pts)
    /\ UNCHANGED fn_args
    /\ UNCHANGED <<trackerVars, validVars, detectVars, ballVars, mainVars>>

NextOrder == OrderCornersCall

\* The points handed to _order_corners: 4 distinct points of a grid.
GridPoints == {<<x, y>> : x \in 0 .. 2, y \in 0 .. 2}
PointLists ==
    {pts \in [1 .. 4 -> GridPoints] :
        \A i, j \in 1 .. 4 : i # j => pts[i] # pts[j]}

\* _group_lines, lines 362-371: the groups after the item (pos, length,
\* seg) has been merged into the first group nearer than merge_dist to it,
\* or appended as a group of its own.  A group is the sum and the number
\* of the positions merged into it (grp[0] is sum / n), its total length
\* and its segments.
AddToGroups(groups, item, merge_dist) ==
    LET near == {k \in 1 .. Len(groups) :
                    Abs(item.pos * groups[k].n - groups[k].sum)
                        < merge_dist * groups[k].n}
    IN  IF near = {}
        THEN Append(groups, [sum |-> item.pos, n |-> 1,
                             total |-> item.length, segs |-> <<item.seg>>])
        ELSE LET k == CHOOSE k \in near : \A l \in near : k <= l
             IN  [groups EXCEPT ![k] =
                     [sum |-> @.sum + item.pos, n |-> @.n + 1,
                      total |-> @.total + item.length,
                      segs |-> Append(@.segs, item.seg)]]

\* _group_lines: the items are taken in the order of the list.
RECURSIVE GroupFrom(_, _, _)
GroupFrom(groups, items, merge_dist) ==
    IF items = <<>> THEN groups
    ELSE GroupFrom(AddToGroups(groups, Head(items), merge_dist),
                   Tail(items), merge_dist)

GroupLines(items, merge_dist) == GroupFrom(<<>>, items, merge_dist)

GroupLinesCall ==
    /\ ~fn_done
    /\ fn_args.fn = "_group_lines"
    /\ fn_done' = TRUE
    /\ fn_ret' = GroupLines(fn_args.items, fn_args.merge_dist)
    /\ UNCHANGED fn_args
    /\ UNCHANGED <<trackerVars, validVars, detectVars, ballVars, mainVars>>

NextGroup == GroupLinesCall

\* The mid positions of the segments handed to _group_lines, the most
\* segments in a list, and the lists: segment i of a list is named i.
SegPositions == {0, 4, 8, 12, 16, 40}
MaxSegs == 4
SegLists ==
    UNION {{[i \in 1 .. n |-> [pos |-> ps[i], length |-> 50, seg |-> i]] :
               ps \in [1 .. n -> SegPositions]} : n \in 1 .. MaxSegs}

\* a / b > c / d for a, c >= 0 and b, d > 0, by whole parts and then the
\* remainders.
RECURSIVE FracGreater(_, _, _, _)
FracGreater(a, b, c, d) ==
    IF a \div b # c \div d THEN a \div b > c \div d
    ELSE IF a % b = 0 THEN FALSE
    ELSE IF c % d = 0 THEN TRUE
    ELSE FracGreater(d, c % d, b, a % b)

\* A plausible slip: the width cap is left out of the tests.
PairPassesNoWidthCap(top_b, bot_b, min_peak_sep, frame_h, frame_w) ==
    LET left == IF top_b.xl < bot_b.xl THEN top_b.xl ELSE bot_b.xl
        right == IF top_b.xr > bot_b.xr THEN top_b.xr ELSE bot_b.xr
        tw == right - left
        th == bot_b.center - top_b.center
    IN  /\ ~(th < min_peak_sep)
        /\ ~(tw < 30 \/ th < 15)
        /\ AspectInRange(tw, th, DefaultAspect)
        /\ ~(frame_h > 0 /\ 10 * th > 4 * frame_h)

\* _best_band_pair, lines 451-467: the pair is not skipped by a continue.
PairPasses(top_b, bot_b, min_peak_sep, frame_h, frame_w) ==
    LET left == IF top_b.xl < bot_b.xl THEN top_b.xl ELSE bot_b.xl
        right == IF top_b.xr > bot_b.xr THEN top_b.xr ELSE bot_b.xr
        tw == right - left
        th == bot_b.center - top_b.center
    IN  /\ ~(th < min_peak_sep)
        /\ ~(tw < 30 \/ th < 15)
        /\ AspectInRange(tw, th, DefaultAspect)
        /\ ~(frame_w > 0 /\ 2 * tw > frame_w)
        /\ ~(frame_h > 0 /\ 10 * th > 4 * frame_h)

\* _best_band_pair, lines 468-482: the score of a pair as <<numerator,
\* denominator>>, 100 times the sum of span_sim * 0.35, overlap_ratio *
\* 0.25, pos_score * 0.20 and strength * 0.20.
PairScore(top_b, bot_b, row_max, frame_h) ==
    LET mn == IF top_b.xspan < bot_b.xspan THEN top_b.xspan ELSE bot_b.xspan
        mx == IF top_b.xspan > bot_b.xspan THEN top_b.xspan ELSE bot_b.xspan
        overlap_left == IF top_b.xl > bot_b.xl THEN top_b.xl ELSE bot_b.xl
        overlap_right == IF top_b.xr < bot_b.xr THEN top_b.xr ELSE bot_b.xr
        overlap == IF overlap_right > overlap_left
                   THEN overlap_right - overlap_left ELSE 0
        \* pos_score is pos10 / (10 frame_h)
        off10 == Abs(10 * (top_b.center + bot_b.center) - 9 * frame_h)
        pos10 == IF 10 * frame_h > off10 THEN 10 * frame_h - off10 ELSE 0
        peaks == top_b.peak + bot_b.peak
        d1 == mx + 1
        d2 == 10 * frame_h
        d3 == 2 * row_max + 1
    IN  <<(35 * mn + 25 * overlap) * d2 * d3 + 20 * pos10 * d1 * d3
            + 20 * peaks * d1 * d2,
          d1 * d2 * d3>>

\* _best_band_pair: the loops over i < j from the pair (i, j) on, best
\* being what the pairs before it have left: None, or the score and the
\* tuple of the best pair so far.
RECURSIVE BestFrom(_, _, _, _)
BestFrom(i, j, best, a) ==
    LET n == Len(a.h_bands) IN
    IF i > n THEN best
    ELSE IF j > n THEN BestFrom(i + 1, i + 2, best, a)
    ELSE LET bi == a.h_bands[i]
             bj == a.h_bands[j]
             top_b == IF bi.center < bj.center THEN bi ELSE bj
             bot_b == IF bi.center < bj.center THEN bj ELSE bi
             score == PairScore(top_b, bot_b, a.row_max, a.frame_h)
             better == \/ best = None
                       \/ FracGreater(score[1], score[2],
                                      best.score[1], best.score[2])
             left == IF top_b.xl < bot_b.xl THEN top_b.xl ELSE bot_b.xl
             right == IF top_b.xr > bot_b.xr THEN top_b.xr ELSE bot_b.xr
         IN  IF /\ PairPasses(top_b, bot_b, a.min_peak_sep, a.frame_h,
                              a.frame_w)
                /\ better
             THEN BestFrom(i, j + 1,
                           [score |-> score,
                            pair |-> <<top_b.center, bot_b.center,
                                       left, right>>], a)
             ELSE BestFrom(i, j + 1, best, a)

\* _best_band_pair: (top_y, bot_y, left, right) of the best pair, or None.
BestBandPair(a) ==
    LET best == BestFrom(1, 2, None, a)
    IN  IF best = None THEN None ELSE best.pair

BestBandPairCall ==
    /\ ~fn_done
    /\ fn_args.fn = "_best_band_pair"
    /\ fn_done' = TRUE
    /\ fn_ret' = BestBandPair(fn_args)
    /\ UNCHANGED fn_args
    /\ UNCHANGED <<trackerVars, validVars, detectVars, ballVars, mainVars>>

NextBand == BestBandPairCall

\* The bands that _find_h_bands finds in a mask of BandFrame: a band at
\* row center with the dense extent xl..xr; the bands across the frame are
\* the strongest.
BandFrame == [h |-> 120, w |-> 200]
BandRows == {20, 40, 60, 80}
BandExtents == {<<60, 140>>, <<50, 150>>, <<5, 195>>, <<70, 100>>}
Band(center, e) ==
    [center |-> center, peak |-> IF e[2] - e[1] > 100 THEN 10 ELSE 6,
     xl |-> e[1], xr |-> e[2], xspan |-> e[2] - e[1]]

\* The lists of 2 or 3 bands, from the top of the mask down.
BandLists ==
    UNION {{[i \in 1 .. n |-> Band(rows[i], es[i])] :
               rows \in {r \in [1 .. n -> BandRows] :
                           \A i \in 1 .. (n - 1) : r[i] < r[i + 1]},
               es \in [1 .. n -> BandExtents]} : n \in 2 .. 3}

\* No helper call is under way.
HelperIdle ==
    /\ fn_args = None
    /\ fn_done = FALSE
    /\ fn_ret = None

----------------------------------------------------------------------------
(* Sessions *)

\* __init__, lines 263-274, and main(), line 948.
TrackerInit ==
    /\ frame_count = 0
    /\ kf = KfAt(0, 0)
    /\ initialized = FALSE
    /\ missing_frames = 0
    /\ mode = MODE_TRACKING
    /\ bounces = <<>>
    /\ prev_vy = 0
    /\ last_bounce_frame = InitialLastBounceFrame
    /\ confirm_window = <<>>
    /\ confirmed = FALSE
    /\ result = [position |-> None, velocity |-> None, is_bounce |-> FALSE,
                 is_predicted |-> FALSE, mode |-> MODE_TRACKING]
    /\ det = None
    /\ branch = "new"
    /\ predicts = 0

\* A short session with any input at every frame, with or without a table.
Init ==
    /\ cfg \in {[horizon |-> MaxFrames, dets |-> NearDets \cup {FarDet},
                 gap |-> {}, table_bounds |-> tb] : tb \in {None, TableBounds}}
    /\ TrackerInit
    /\ ValidIdle
    /\ DetectIdle
    /\ BallIdle
    /\ InLoop
    /\ HelperIdle

\* A session long enough for the ball to be lost.
InitLost ==
    /\ cfg = [horizon |-> LostFrames, dets |-> {<<300, 150>>, FarDet},
              gap |-> {}, table_bounds |-> TableBounds]
    /\ TrackerInit
    /\ ValidIdle
    /\ DetectIdle
    /\ BallIdle
    /\ InLoop
    /\ HelperIdle

\* A session with a detection at every frame but those of one gap.
InitGap ==
    /\ cfg = [horizon |-> GapFrames, dets |-> NearDets,
              gap |-> GapFirst .. (GapFirst + GapLen - 1),
              table_bounds |-> TableBounds]
    /\ TrackerInit
    /\ ValidIdle
    /\ DetectIdle
    /\ BallIdle
    /\ InLoop
    /\ HelperIdle

\* A tracker that is never called: the session of the specifications that
\* exercise the table detector alone.
TrackerIdle ==
    /\ cfg = [horizon |-> 0, dets |-> {}, gap |-> {}, table_bounds |-> None]
    /\ TrackerInit

\* _valid_table called once on any quad, frame and aspect range.
InitValid ==
    /\ vt_args \in [corners : TestQuads,
                     frame_h : {d[1] : d \in FrameDims},
                     frame_w : {d[2] : d \in FrameDims},
                     min_area : {MinArea},
                     aspect_range : {DefaultAspect, LinesAspect}]
    /\ vt_done = FALSE
    /\ vt_ret = FALSE
    /\ TrackerIdle
    /\ DetectIdle
    /\ BallIdle
    /\ InLoop
    /\ HelperIdle

\* detect_table_corners called on any frame.
InitDetect ==
    /\ frame \in Frames
    /\ ran = <<>>
    /\ returned = FALSE
    /\ ret = <<None, None>>
    /\ calls = <<>>
    /\ TrackerIdle
    /\ ValidIdle
    /\ BallIdle
    /\ InLoop
    /\ HelperIdle

\* detect called once on any candidates.
InitBall ==
    /\ bd_args \in BallInputs
    /\ bd_done = FALSE
    /\ bd_ret = None
    /\ TrackerIdle
    /\ ValidIdle
    /\ DetectIdle
    /\ InLoop
    /\ HelperIdle

\* main() from the table detection on, with any use of the remote detector,
\* calibration, TTNet result and video, and a per-frame loop of MainFrames
\* frames.
InitMain ==
    /\ env \in [kimi : KimiEnvs, calib : Calibs, ttnet : {None, Good(80)},
                 video : Videos]
    /\ pc = "kimi"
    /\ table_info = None
    /\ homography = None
    /\ kimi_detector = FALSE
    /\ try_pos = 1
    /\ tried = <<>>
    /\ source = "none"
    /\ cfg = [horizon |-> MainFrames, dets |-> {<<300, 150>>}, gap |-> {},
              table_bounds |-> None]
    /\ TrackerInit
    /\ ValidIdle
    /\ DetectIdle
    /\ BallIdle
    /\ HelperIdle

\* The rest of the program while a helper is called.
OthersIdle ==
    /\ TrackerIdle
    /\ ValidIdle
    /\ DetectIdle
    /\ BallIdle
    /\ InLoop

\* _order_corners called once on any 4 distinct points.
InitOrder ==
    /\ fn_args \in [fn : {"_order_corners"}, pts : PointLists]
    /\ fn_done = FALSE
    /\ fn_ret = None
    /\ OthersIdle

\* _group_lines called once on any list of segments, with the least merge
\* distance that _strategy_find_table_lines passes.
InitGroup ==
    /\ fn_args \in [fn : {"_group_lines"}, items : SegLists,
                    merge_dist : {10}]
    /\ fn_done = FALSE
    /\ fn_ret = None
    /\ OthersIdle

\* _best_band_pair called once on any list of bands, as _peak_border_scan
\* calls it.
InitBand ==
    /\ fn_args \in [fn : {"_best_band_pair"}, h_bands : BandLists,
                    min_peak_sep : {20}, row_max : {10},
                    frame_h : {BandFrame.h}, frame_w : {BandFrame.w}]
    /\ fn_done = FALSE
    /\ fn_ret = None
    /\ OthersIdle


Spec == Init /\ [][Next]_vars
SpecLost == InitLost /\ [][Next]_vars
SpecGap == InitGap /\ [][Next]_vars
SpecValid == InitValid /\ [][NextValid]_vars
SpecDetect == InitDetect /\ [][NextDetect]_vars
SpecBall == InitBall /\ [][NextBall]_vars
SpecMain == InitMain /\ [][NextMain]_vars
SpecOrder == InitOrder /\ [][NextOrder]_vars
SpecGroup == InitGroup /\ [][NextGroup]_vars
SpecBand == InitBand /\ [][NextBand]_vars

----------------------------------------------------------------------------
(* Properties *)

\* The last update() call accepted no measurement although the tracker was
\* initialized when it was called.
NothingAccepted == branch \in {"outlier", "miss", "lost"}

\* The last update() call accepted a measurement.
MeasurementAccepted == branch \in {"first", "accepted"}

\* The mode ladder over the running miss count.
LadderMode(mf) ==
    IF mf < 5 THEN MODE_TRACKING
    ELSE IF mf < 12 THEN MODE_SEARCHING
    ELSE MODE_DESPERATE

\* C1: during a run of updates that accept no measurement, the mode that
\* update returns is Tracking while missing_frames is below 5, Searching
\* while it is 5 to 11, and Desperate once it is 12 or more.
C1_ModeLadder ==
    NothingAccepted =>
        /\ missing_frames >= 1
        /\ result.mode = LadderMode(missing_frames)
        /\ mode = result.mode

\* C1 witness: a miss run has climbed into Desperate mode.
C1_Witness ==
    /\ branch = "miss"
    /\ missing_frames = 12
    /\ result.mode = MODE_DESPERATE

\* C2 (as claimed): once missing_frames exceeds max_missing the tracker is
\* uninitialized again and holds no velocity.
C2_LostResets ==
    missing_frames > max_missing =>
        /\ ~initialized
        /\ Velocity(kf) = <<0, 0>>

LastThreeDetected(w) ==
    /\ Len(w) >= 3
    /\ \A i \in (Len(w) - 2) .. Len(w) : w[i]

LastFourMissed(w) ==
    /\ Len(w) = WindowLen
    /\ \A i \in 2 .. WindowLen : ~w[i]

C6_NoPositionUnconfirmed ==
    (branch # "new" /\ ~confirmed) => result.position = None

\* C6 witness: a detection was accepted, the estimator holds a position,
\* and none is returned because confirmed is false.
C6_Witness ==
    /\ branch = "accepted"
    /\ initialized
    /\ ~confirmed
    /\ result.position = None
    /\ Position(kf) = det

\* C7 (as claimed): with a detection accepted at every frame but those of
\* one gap of 5 frames, confirmed is true at every update from the third
\* on, the updates after the gap included.
C7_ConfirmedThroughGap ==
    (cfg.gap # {} /\ frame_count >= 3) => confirmed

\* The table bounds of the session enlarged by the margin hold (px, py).
InEnlargedTable(px, py) ==
    LET tb == cfg.table_bounds
        w == tb[3] - tb[1]
        h == tb[4] - tb[2]
    IN  /\ 10 * (tb[1] - px) <= w
        /\ 10 * (px - tb[3]) <= w
        /\ 100 * (tb[2] - py) <= 15 * h
        /\ 100 * (py - tb[4]) <= 15 * h

C9_BounceGap ==
    \A i, j \in 1 .. Len(bounces) :
        i < j => bounces[j].frame - bounces[i].frame > 8

\* C9 witness: two bounces were recorded.
C9_Witness ==
    /\ Len(bounces) >= 2
    /\ bounces[2].frame - bounces[1].frame > 8

\* C10 (as claimed): a tracker without table bounds never declares a
\* bounce.
C10_NoBoundsNoBounce ==
    cfg.table_bounds = None => (bounces = <<>> /\ ~result.is_bounce)

\* C11: every update leaves the events of the bounce list unchanged and in
\* place and adds at most one event at its end, whether the detection is
\* accepted, rejected or absent, or the ball is lost.
C11_BouncesAppendOnly ==
    [][/\ Len(bounces') \in {Len(bounces), Len(bounces) + 1}
       /\ SubSeq(bounces', 1, Len(bounces)) = bounces]_vars

\* C11 witness: the ball is lost beyond max_missing and the list still holds
\* an event recorded before.
C11_Witness ==
    /\ branch = "lost"
    /\ Len(bounces) >= 1
    /\ bounces[1].frame < frame_count - max_missing

\* C20 (as claimed): whenever update has returned with missing_frames = 0,
\* the mode it returned and the mode main() reads for the next frame's
\* search radius and desperate flag are Tracking (radius 100, not desperate).
C20_ZeroMissesIsTracking ==
    (branch # "new" /\ missing_frames = 0) =>
        /\ result.mode = MODE_TRACKING
        /\ mode = MODE_TRACKING
        /\ GetSearchRadius(mode) = 100
        /\ mode # MODE_DESPERATE

\* C14: _valid_table, called on a quad of 4 points with the frame's
\* positive width and height, returns False when the ratio of the quad's
\* mean width to its mean height is outside [1.3, 5.5], or its area is
\* below 2000, or its mean width is above 50% of the frame's width, or its
\* mean height is above 40% of the frame's height.
C14_InvalidQuadRejected ==
    (/\ vt_done
     /\ Len(vt_args.corners) = 4
     /\ vt_args.frame_w > 0
     /\ vt_args.frame_h > 0
     /\ LET q == vt_args.corners
        IN  \/ 10 * Width2(q) < 13 * Height2(q)
            \/ 10 * Width2(q) > 55 * Height2(q)
            \/ Area2(q) < 2 * 2000
            \/ 100 * Width2(q) > 50 * 2 * vt_args.frame_w
            \/ 100 * Height2(q) > 40 * 2 * vt_args.frame_h)
    => ~vt_ret

\* C14 witness: a quad rejected for its height alone: its area, its aspect
\* and its width are within the limits.
C14_Witness ==
    /\ vt_done
    /\ ~vt_ret
    /\ Len(vt_args.corners) = 4
    /\ LET q == vt_args.corners
       IN  /\ 5 * Height2(q) > 4 * vt_args.frame_h
           /\ Width2(q) <= vt_args.frame_w
           /\ Area2(q) >= 2 * MinArea
           /\ 14 * Height2(q) < 10 * Width2(q)
           /\ 10 * Width2(q) <= 50 * Height2(q)

\* C12: the strategies a detect_table_corners call has run are, in this
\* order, surface+lines, border scan, rectangle, k-means+Hough, direct
\* Hough and surface colour; none runs after one that returned a quad; the
\* call returns the quad of the first strategy that returned one, and
\* (None, None) only after all six returned none.
C12_StrategyOrder ==
    LET order == <<"find_table_lines", "border_lines", "rectangle",
                   "kmeans_hough", "direct_hough", "surface_color">>
    IN  /\ Len(ran) <= 6
        /\ \A i \in 1 .. Len(ran) : ran[i].strategy = order[i]
        /\ \A i \in 1 .. (Len(ran) - 1) : ran[i].corners = None
        /\ ~returned => \A i \in 1 .. Len(ran) : ran[i].corners = None
        /\ returned =>
              /\ Len(ran) >= 1
              /\ ret[1] = ran[Len(ran)].corners
              /\ ret[1] = None => (Len(ran) = 6 /\ ret = <<None, None>>)

\* C12 witness: the border scan returned a quad after surface+lines had
\* returned none, and the rectangle strategy, which has quads to offer on
\* this frame, did not run.
C12_Witness ==
    /\ returned
    /\ Len(ran) = 2
    /\ ran[1].corners = None
    /\ ret[1] = Good(110)
    /\ frame.found["rectangle"] # <<>>

\* C13: a quad that detect_table_corners returns has, for the frame it
\* was found in, an area of at least 2000, a ratio of mean width to mean
\* height within [1.3, 5.5], a mean width of at most 50% of the frame's
\* width and a mean height of at most 40% of the frame's height.
C13_ReturnedQuadValid ==
    (returned /\ ret[1] # None) =>
        LET q == ret[1]
        IN  /\ Len(q) = 4
            /\ Area2(q) >= 2 * 2000
            /\ 13 * Height2(q) <= 10 * Width2(q)
            /\ 10 * Width2(q) <= 55 * Height2(q)
            /\ 100 * Width2(q) <= 50 * 2 * frame.w
            /\ 100 * Height2(q) <= 40 * 2 * frame.h

\* C13 witness: the border scan returned its second quad after the
\* validator had rejected its first, and that after the validator had
\* rejected the quad of surface+lines.
C13_Witness ==
    /\ returned
    /\ Len(ran) = 2
    /\ frame.found["find_table_lines"] = <<Small(100)>>
    /\ frame.found["border_lines"] = <<Wide(110), Good(110)>>
    /\ ret = <<Good(110), None>>

\* C17 (as claimed): two calls of detect_table_corners on the same frame
\* return the same quad and net y, or no quad both times.
C17_SameResultTwice ==
    Len(calls) >= 2 => calls[2] = calls[1]

\* The confidence a candidate of the call ends with: blended when a
\* previous position is given and the candidate lies within search_radius
\* of it, its own otherwise.
FinalConf(c) ==
    IF /\ bd_args.prev_center # None
       /\ Dist(c, bd_args.prev_center) < bd_args.search_radius
    THEN Blend(c, bd_args.prev_center, bd_args.search_radius)
    ELSE c.conf

\* C18 (as claimed): detect returns a candidate whose final confidence no
\* other candidate exceeds.
C18_HighestFinalConfidence ==
    (bd_done /\ bd_args.candidates # <<>>) =>
        /\ bd_ret # None
        /\ \A i \in 1 .. Len(bd_args.candidates) :
              FinalConf(bd_args.candidates[i]) <= bd_ret.conf

\* C18 (amended): with a previous position and a candidate within
\* search_radius of it, detect returns the candidate of the highest blended
\* confidence among those within the radius, whatever the confidence of the
\* candidates outside it; otherwise it returns the candidate of the highest
\* confidence of its own; it returns None only without candidates.
C18_NearCandidatesFirst ==
    bd_done =>
        LET cs == bd_args.candidates
            prev == bd_args.prev_center
            near == IF prev = None THEN {}
                    ELSE {i \in 1 .. Len(cs) :
                            Dist(cs[i], prev) < bd_args.search_radius}
        IN  IF cs = <<>> THEN bd_ret = None
            ELSE IF near # {}
            THEN \E i \in near :
                    /\ bd_ret.center = cs[i].center
                    /\ bd_ret.conf = FinalConf(cs[i])
                    /\ \A j \in near : FinalConf(cs[j]) <= FinalConf(cs[i])
            ELSE \E i \in 1 .. Len(cs) :
                    /\ bd_ret = cs[i]
                    /\ \A j \in 1 .. Len(cs) : cs[j].conf <= cs[i].conf

\* C18 witness: the candidate returned lies within the radius and a
\* candidate outside the radius has a higher confidence than it ends with.
C18_Witness ==
    /\ bd_done
    /\ bd_ret # None
    /\ bd_args.prev_center # None
    /\ Norm(bd_ret.center, bd_args.prev_center) < bd_args.search_radius
    /\ \E i \in 1 .. Len(bd_args.candidates) :
          /\ Dist(bd_args.candidates[i], bd_args.prev_center)
                >= bd_args.search_radius
          /\ bd_args.candidates[i].conf > bd_ret.conf


\* C15: a quad that the session adopts from the remote detector (vision
\* mode, reasoning mode or the detector's own local fallback) passes
\* _valid_table on the frame it was detected in, with one of the two aspect
\* ranges that the local strategies pass.
C15_KimiQuadValidated ==
    (source = "kimi" /\ table_info # None) =>
        \E r \in {DefaultAspect, LinesAspect} :
            ValidTable(table_info.corners, env.video[0].h, env.video[0].w,
                       MinArea, r)

\* The retry frames that cap.read delivers.
ReadableRetryFrames ==
    LET Readable(i) == env.video[i] # None
    IN  SelectSeq(<<0, 30, 60, 90, 150>>, Readable)

\* The local path of main() after a Kimi block that adopted nothing: the
\* calibration file, else TTNet, else the retry loop, which has ended with a
\* quad or after every readable retry frame.
LocalPathTaken ==
    IF env.calib # None THEN homography = env.calib.corners
    ELSE IF env.ttnet # None
    THEN source = "ttnet" /\ table_info.corners = env.ttnet
    ELSE \/ pc = "retry"
         \/ source = "court_lines"
         \/ table_info = None /\ tried = ReadableRetryFrames

\* C16: when the remote call on the first frame raises, times out or
\* returns no 4 corners, the session goes on to a local path: in reasoning
\* mode the detector's local CV fallback gives the table when it finds one,
\* and in vision mode, or when that fallback finds none, nothing is adopted
\* from the detector, it is dropped, and main() takes its own local path
\* (calibration, TTNet, the retry loop of detect_table_corners).
C16_RemoteFailureFallsThrough ==
    (/\ pc \in {"local", "retry", "tracker", "loop"}
     /\ env # None
     /\ env.kimi.use_kimi
     /\ env.video[0] # None
     /\ env.kimi.remote.kind \in {"raises", "timeout", "unparsable"})
    => IF ~env.kimi.vision /\ env.kimi.local_cv[1] # None
       THEN /\ source = "kimi"
            /\ table_info.corners = env.kimi.local_cv[1]
            /\ kimi_detector
       ELSE /\ source # "kimi"
            /\ ~kimi_detector
            /\ pc = "local" => table_info = None /\ homography = None
            /\ pc # "local" => LocalPathTaken

\* The remote call timed out in vision mode, main() found the table with
\* detect_table_corners at frame 30, and the per-frame loop runs.
C16_Witness ==
    /\ pc = "loop"
    /\ frame_count >= 1
    /\ env.kimi.use_kimi
    /\ env.kimi.vision
    /\ env.kimi.remote.kind = "timeout"
    /\ source = "court_lines"
    /\ tried = <<0, 30>>
    /\ table_info.corners = Good(130)

\* C19: detect_table_corners runs only in the startup retry loop, on the
\* frames 0, 30, 60, 90, 150 in that order (the unreadable ones are
\* skipped), and not after a frame that yielded a quad; once the per-frame
\* loop has started, table_info, the tracker's table bounds and the list of
\* tried frames stay as they are.
C19_DetectionOnlyAtStartup ==
    [][LET Readable(i) == env.video[i] # None
           Yields(i) == \E km \in env.video[i].clusterings :
                           DetectTableCorners(env.video[i], km)[1] # None
       IN  /\ tried' # tried =>
                /\ pc = "retry"
                /\ \E n \in 1 .. 5 :
                      tried' = SelectSeq(SubSeq(<<0, 30, 60, 90, 150>>, 1, n),
                                         Readable)
                /\ \A j \in 1 .. Len(tried) : ~Yields(tried[j])
                /\ Yields(tried'[Len(tried')]) =>
                      /\ pc' = "tracker"
                      /\ source' = "court_lines"
                      /\ table_info'.corners # None
           /\ source' = "court_lines" /\ source # "court_lines" =>
                tried' # tried
           /\ pc = "loop" =>
                /\ pc' = "loop"
                /\ table_info' = table_info
                /\ cfg'.table_bounds = cfg.table_bounds
                /\ tried' = tried
      ]_vars

\* Frame 60 could not be read, frames 0, 30 and 90 showed no table, the
\* table was found at frame 150, and the loop has run MainFrames frames
\* with the bounds of that table.
C19_Witness ==
    /\ pc = "loop"
    /\ frame_count = MainFrames
    /\ tried = <<0, 30, 90, 150>>
    /\ source = "court_lines"
    /\ table_info.corners = Good(250)
    /\ cfg.table_bounds = <<250, 100, 450, 200>>


\* C21: an update call on a tracker that is initialized when the call
\* starts makes exactly one self.kf.predict() call, whatever the detection
\* and whatever missing_frames.
C21_OnePredictPerUpdate ==
    [][(frame_count' # frame_count /\ initialized) => predicts' = 1]_vars


\* C22: update returns is_predicted = true exactly when the tracker was
\* initialized when the call started and the call accepted no measurement,
\* that is, it was given no detection or appended False to the window for
\* the detection it was given.
C22_PredictedIffNothingAccepted ==
    [][frame_count' # frame_count =>
         LET w == confirm_window'
             accepted == det' # None /\ w[Len(w)]
         IN  /\ result'.is_predicted = (initialized /\ ~accepted)
             /\ accepted => missing_frames' = 0 /\ initialized'
             /\ ~accepted => initialized' = initialized
      ]_vars

\* A detection was rejected as an outlier and the call reported a
\* prediction, after a call on the uninitialized tracker without a
\* detection had reported none.
C22_Witness ==
    /\ branch = "outlier"
    /\ det # None
    /\ result.is_predicted
    /\ confirm_window[1] = FALSE


\* The outlier threshold that the next update() call applies to a
\* detection, and the search radius that main() reads for the next frame.
ThresholdInForce ==
    GetOutlierThreshold(UpdateMode(missing_frames, mode), missing_frames)
RadiusInForce == GetSearchRadius(mode)

\* C23: the threshold and the radius in force are those of the mode (80 + 8
\* missing_frames, 250, 9999 and 100, 200, 9999), and neither becomes
\* smaller in an update call that lengthens the miss run.
C23_ThresholdAndRadiusNonDecreasing ==
    [][/\ ThresholdInForce' \in
             {80 + 8 * missing_frames', 250, 9999}
       /\ RadiusInForce' \in {100, 200, 9999}
       /\ missing_frames' > missing_frames =>
             /\ ThresholdInForce' >= ThresholdInForce
             /\ RadiusInForce' >= RadiusInForce
      ]_vars


\* C26: an update call that returns is_predicted = true and leaves
\* missing_frames above 8 returns no position.
C26_PredictionHiddenAfterEight ==
    (result.is_predicted /\ missing_frames > 8) => result.position = None


\* C27: an update call that returns is_bounce = true has accepted a
\* measurement (is_predicted = false, True appended to the window) and has
\* appended one event with its frame index to the bounce list; a call that
\* returns is_bounce = false leaves the list as it is.  The list being
\* empty at first, its length is the number of calls that returned
\* is_bounce = true.
C27_BounceIffAppended ==
    [][frame_count' # frame_count =>
         IF result'.is_bounce
         THEN /\ ~result'.is_predicted
              /\ det' # None
              /\ confirm_window'[Len(confirm_window')]
              /\ Len(bounces') = Len(bounces) + 1
              /\ SubSeq(bounces', 1, Len(bounces)) = bounces
              /\ bounces'[Len(bounces')].frame = frame_count'
         ELSE bounces' = bounces
      ]_vars

\* The call of frame 3 returned the first bounce of the session, recorded
\* with that frame.
C27_Witness ==
    /\ frame_count = 3
    /\ result.is_bounce
    /\ ~result.is_predicted
    /\ bounces = <<[frame |-> 3, image_xy |-> result.position]>>


\* C28: an update call that returns is_bounce = true returns a position,
\* the ball being confirmed.
C28_BounceOnlyWhenShown ==
    result.is_bounce => (confirmed /\ result.position # None)


\* What the surface+lines strategy and what a fallback strategy make of the
\* quad and frame of the _valid_table call.
PrimaryAccepts ==
    ValidTable(vt_args.corners, vt_args.frame_h, vt_args.frame_w,
               vt_args.min_area, LinesAspect)
FallbackAccepts ==
    ValidTable(vt_args.corners, vt_args.frame_h, vt_args.frame_w,
               vt_args.min_area, DefaultAspect)

\* C25 (as claimed): the validation of a quad gives the same answer in
\* every strategy: what the call returned is what both the surface+lines
\* strategy and the fallback strategies make of the quad.
C25_SameValidationEverywhere ==
    vt_done => (vt_ret = PrimaryAccepts /\ vt_ret = FallbackAccepts)

\* C25 (amended): the strategies share the predicate, the minimum area and
\* the frame-fraction caps and differ in the aspect range: a quad that a
\* fallback strategy accepts is accepted by the surface+lines strategy, and
\* a quad that the surface+lines strategy accepts is accepted by a fallback
\* strategy exactly when its aspect is within the default range, above 1.4
\* and at most 5.0.
C25_FallbackStricter ==
    vt_done =>
        /\ vt_ret = IF vt_args.aspect_range = LinesAspect
                    THEN PrimaryAccepts ELSE FallbackAccepts
        /\ FallbackAccepts => PrimaryAccepts
        /\ PrimaryAccepts =>
              (FallbackAccepts <=>
                  LET q == vt_args.corners
                  IN  /\ 14 * Height2(q) < 10 * Width2(q)
                      /\ 10 * Width2(q) <= 50 * Height2(q))

\* The surface+lines strategy has accepted a quad of aspect 5.5 that the
\* fallback strategies reject.
C25_Witness ==
    /\ vt_done
    /\ vt_ret
    /\ vt_args.aspect_range = LinesAspect
    /\ vt_args.corners = Rect(100, 100, 550, 100)
    /\ ~FallbackAccepts


\* C24: the pair that _best_band_pair returns spans, from the leftmost
\* start to the rightmost end of its two bands, at most half of the frame's
\* width, so that no band of the pair spans more than half of it.
C24_NoPairWiderThanHalf ==
    (fn_done /\ fn_args.fn = "_best_band_pair" /\ fn_ret # None) =>
        /\ 2 * (fn_ret[4] - fn_ret[3]) <= fn_args.frame_w
        /\ \A i \in 1 .. Len(fn_args.h_bands) :
              LET b == fn_args.h_bands[i]
              IN  2 * b.xspan > fn_args.frame_w =>
                     b.center \notin {fn_ret[1], fn_ret[2]}

\* The first band of the list spans the frame and is the strongest, and
\* the pair returned is that of the two narrower bands below it.
C24_Witness ==
    /\ fn_done
    /\ fn_args.fn = "_best_band_pair"
    /\ Len(fn_args.h_bands) = 3
    /\ fn_args.h_bands[1] = Band(20, <<5, 195>>)
    /\ fn_args.h_bands[1].peak > fn_args.h_bands[2].peak
    /\ fn_ret = <<40, 60, 60, 140>>

\* C29: the groups that _group_lines returns lie at least merge_dist apart
\* from each other, whatever the order of the segments.
C29_GroupsApart ==
    (fn_done /\ fn_args.fn = "_group_lines") =>
        \A i, j \in 1 .. Len(fn_ret) :
            i # j =>
                Abs(fn_ret[i].sum * fn_ret[j].n - fn_ret[j].sum * fn_ret[i].n)
                    >= fn_args.merge_dist * fn_ret[i].n * fn_ret[j].n

\* C30: the four points that _order_corners returns are its four input
\* points, each once.
C30_OrderIsPermutation ==
    (fn_done /\ fn_args.fn = "_order_corners") =>
        {fn_ret[i] : i \in 1 .. 4} = {fn_args.pts[i] : i \in 1 .. 4}

====
